---- MODULE Spec2Model ----
(***************************************************************************)
(* The useImageFilters hook of the photo editor: the filter state          *)
(* (internalFilters), the debounce effect that arms a 150 ms timer on      *)
(* every change of (originalImage, processImage), processImage, and the    *)
(* render it defers to a microtask.                                        *)
(*                                                                         *)
(* One action is one JavaScript task run to completion together with the   *)
(* React commit it causes (re-render, effect cleanup, effect).  Real       *)
(* numbers are fixed-point integers in thousandths (0.2 is 200).           *)
(***************************************************************************)
EXTENDS Integers, Sequences, FiniteSets, TLC

\* ------------------------------------------------------------------------
\* Bounds of the exploration
\* ------------------------------------------------------------------------
\* objects the filter state may allocate (ref 1 is the initial state object)
MaxRefs == 3
\* timers setTimeout may hand out
MaxTimers == 3
\* the same two bounds for the page as a whole, where the upload itself
\* allocates an object
MaxAppRefs == 4
MaxAppTimers == 4
\* the largest width and height of the images whose pixels are followed
MaxSide == 6
\* the largest number of pixels of the images whose smoothing loop is followed
MaxPixels == 6
\* files ImageUploader may accept
MaxFiles == 4

\* ------------------------------------------------------------------------
\* JavaScript values
\* ------------------------------------------------------------------------
\* A value is [t |-> typeof, tag |-> which value of that type, v |-> payload
\* in thousandths].
Fin(n) == [t |-> "number", tag |-> "fin", v |-> n]
NaN == [t |-> "number", tag |-> "NaN", v |-> 0]
NumStr(n) == [t |-> "string", tag |-> "numeric", v |-> n]
TextStr == [t |-> "string", tag |-> "text", v |-> 0]
EmptyStr == [t |-> "string", tag |-> "empty", v |-> 0]
Null == [t |-> "object", tag |-> "null", v |-> 0]
Undefined == [t |-> "undefined", tag |-> "undefined", v |-> 0]
True == [t |-> "boolean", tag |-> "true", v |-> 0]

TypeOf(x) == x.t

\* Number(value), applied to the argument as it is: a raw value is stored
\* under its own type
RawNumber(x) == x

\* Number(value)
Number(x) ==
  CASE x.t = "number" -> x
    [] x.tag = "numeric" -> Fin(x.v)
    [] x.tag = "text" -> NaN
    [] x.tag = "empty" -> Fin(0)
    [] x.tag = "null" -> Fin(0)
    [] x.tag = "undefined" -> NaN
    [] x.tag = "true" -> Fin(1000)
    [] OTHER -> NaN

\* a === b that holds for every pair of equal values, NaN included
SameValue(a, b) == a = b

\* a === b on numbers: NaN is not equal to anything, itself included
StrictEquals(a, b) == a.tag # "NaN" /\ b.tag # "NaN" /\ a = b

IsNaN(x) == x.tag = "NaN"

\* the values the callers hand to updateFilter
RawValues == { NumStr(200), Fin(1500), TextStr, Null }

\* ------------------------------------------------------------------------
\* Filter objects
\* ------------------------------------------------------------------------
FilterNames ==
  << "smoothing", "brightness", "contrast", "blur", "saturation", "backgroundBlur" >>

KnownNames == { FilterNames[i] : i \in 1..Len(FilterNames) }

\* the property names the callers hand to updateFilter: defined filters, a
\* name that is no filter, and an integer-like name
UpdateNames == { "brightness", "backgroundBlur", "sepia", "1" }

\* property names that are array indices enumerate first, in ascending order
IsArrayIndex(k) == k \in { "0", "1", "2" }
IndexValue(k) == CASE k = "0" -> 0 [] k = "1" -> 1 [] k = "2" -> 2 [] OTHER -> -1

\* the own properties of an object, in enumeration order
defaultFilters == [ i \in 1..Len(FilterNames) |-> [key |-> FilterNames[i], val |-> Fin(0)] ]

Keys(entries) == [ i \in 1..Len(entries) |-> entries[i].key ]
HasOwnProperty(entries, k) == \E i \in 1..Len(entries) : entries[i].key = k
Get(entries, k) == entries[CHOOSE i \in 1..Len(entries) : entries[i].key = k].val

\* position at which a new property k enumerates
InsertPos(entries, k) ==
  IF IsArrayIndex(k)
  THEN Cardinality({ i \in 1..Len(entries) :
         IsArrayIndex(entries[i].key) /\ IndexValue(entries[i].key) < IndexValue(k) }) + 1
  ELSE Len(entries) + 1

\* { ...obj, [k]: v } with the property moved to the end of the enumeration
SpreadSetMoved(entries, k, v) ==
  Append(SelectSeq(entries, LAMBDA e : e.key # k), [key |-> k, val |-> v])

\* { ...obj, [k]: v }: an existing property keeps its place
SpreadSet(entries, k, v) ==
  IF HasOwnProperty(entries, k)
  THEN [ i \in 1..Len(entries) |->
         IF entries[i].key = k THEN [key |-> k, val |-> v] ELSE entries[i] ]
  ELSE LET p == InsertPos(entries, k)
       IN SubSeq(entries, 1, p - 1) \o << [key |-> k, val |-> v] >>
            \o SubSeq(entries, p, Len(entries))

\* ------------------------------------------------------------------------
\* Image elements
\* ------------------------------------------------------------------------
NoImage ==
  [id |-> 0, isImage |-> FALSE, complete |-> FALSE, naturalWidth |-> 0, naturalHeight |-> 0]

\* what the caller may hand to setupCanvas: two loaded images, an image of
\* width 0, an image still loading, an object that is no image, and null
ImageElements ==
  { [id |-> 1, isImage |-> TRUE, complete |-> TRUE, naturalWidth |-> 2, naturalHeight |-> 2],
    [id |-> 2, isImage |-> TRUE, complete |-> TRUE, naturalWidth |-> 3, naturalHeight |-> 1],
    [id |-> 3, isImage |-> TRUE, complete |-> TRUE, naturalWidth |-> 0, naturalHeight |-> 0],
    [id |-> 4, isImage |-> TRUE, complete |-> FALSE, naturalWidth |-> 2, naturalHeight |-> 2],
    [id |-> 5, isImage |-> FALSE, complete |-> TRUE, naturalWidth |-> 2, naturalHeight |-> 2],
    NoImage }

\* a loaded image of height 0
ZeroHeightImage ==
  [id |-> 6, isImage |-> TRUE, complete |-> TRUE, naturalWidth |-> 2, naturalHeight |-> 0]

\* the check of setupCanvas without the test of complete
InvalidElementIgnoresComplete(e) ==
  e.id = 0 \/ ~e.isImage \/ e.naturalWidth = 0

\* !imageElement || !(instanceof HTMLImageElement) || !complete || naturalWidth === 0
InvalidElement(e) ==
  e.id = 0 \/ ~e.isImage \/ ~e.complete \/ e.naturalWidth = 0

\* originalImage && originalImage.naturalWidth > 0
ValidSource(img) == img.id # 0 /\ img.naturalWidth > 0

\* what a render that applies no backgroundBlur and no smoothing leaves
NoFocus == [centre |-> "sharp", corner |-> "sharp"]
NoKernel == [strength |-> 0, originalWeight |-> 0, smoothWeight |-> 0]

NoResult ==
  [present |-> FALSE, img |-> 0, filters |-> 0, stages |-> << >>,
   focus |-> NoFocus, kernel |-> NoKernel]

VARIABLES
  internalFilters,   \* [ref, entries]: the state object and its properties
  originalImage,     \* image element or NoImage
  processedImage,    \* NoResult or the data URL of a render
  isProcessing,
  timers,            \* armed timers: [id, img, filters] (the closure of processImage)
  debounceTimerId,   \* the timer id the latest effect run holds, 0 if none
  nextTimerId,
  nextRef,
  microtasks,        \* queued Promise callbacks: the closures of processImage
  invoked,           \* history: ids of the timers whose callback called processImage
  superseded,        \* history: ids of timers armed when a later change arrived
  lastOp,            \* history: the operation that ran last
  mounted,           \* the component that uses the hook is mounted
  console,           \* the filter types the latest render warned about
  threw,             \* history: a render has thrown
  uiBusy,            \* the isProcessing the page showed at its latest paint
  sourceImage,       \* App: the data URL of the upload, 0 if none
  imageForFiltering, \* App: the data URL the filters apply to, 0 if none
  isBaseImageElementLoading,
  imgSrc,            \* App: img.src of the Image whose handlers are attached, 0 if none
  isCompressing,     \* DownloadButton: a download is running
  originalFileName,  \* App: the name the download is given
  detached,          \* App: img.src of the Images still loading whose effect was cleaned up
  downloadProgress,  \* DownloadButton: percent
  link,              \* history: the link handleDownload clicked last
  downloads,         \* DownloadButton: the handleDownload calls waiting for compressImage
  data,              \* imageData.data of the working canvas: r, g, b, a of each pixel
  drawn,             \* history: the pixels getImageData returned
  window,            \* history: count and sample positions of each pixel's average
  isLoading,         \* ImageUploader
  error,             \* ImageUploader: the message shown
  reads,             \* ImageUploader: the files a FileReader is reading
  uploadTimers,      \* ImageUploader: armed timeouts [id, file, delay]
  debounceTimeoutRef,\* ImageUploader: debounceTimeoutRef.current, 0 if null
  uploaded,          \* history: the files onImageUpload was called with, in order
  ended,             \* history: how the read of each accepted file ended
  nextFile,          \* the number the next accepted file gets
  dialog,            \* ImageUploader: the file dialog of the input is open
  lastFile           \* history: the file the latest drop or change carried

vars ==
  << internalFilters, originalImage, processedImage, isProcessing, timers,
     debounceTimerId, nextTimerId, nextRef, microtasks, invoked, superseded, lastOp,
     mounted, console, threw, uiBusy,
     sourceImage, imageForFiltering, isBaseImageElementLoading, imgSrc, isCompressing,
     originalFileName, detached, downloadProgress, link, downloads,
     data, drawn, window,
     isLoading, error, reads, uploadTimers, debounceTimeoutRef, uploaded, ended, nextFile,
     dialog, lastFile >>

\* the state of App and of DownloadButton
appVars == << sourceImage, imageForFiltering, isBaseImageElementLoading, imgSrc, isCompressing >>

\* the rest of the state of App and of DownloadButton
cropVars == << originalFileName, detached >>
downloadVars == << downloadProgress, link, downloads >>

\* the pixels of the working canvas
pixelVars == << data, drawn, window >>

\* the state of ImageUploader
uploaderVars ==
  << isLoading, error, reads, uploadTimers, debounceTimeoutRef, uploaded, ended, nextFile,
     dialog, lastFile >>

\* the state outside of the hook that the actions of the hook leave alone
otherVars == << appVars, cropVars, downloadVars, pixelVars, uploaderVars >>


\* ------------------------------------------------------------------------
\* applyFilter
\* ------------------------------------------------------------------------
Abs(n) == IF n < 0 THEN -n ELSE n

\* Math.abs(value) < 0.01 (false for NaN)
Negligible(value) == ~IsNaN(value) /\ Abs(value.v) < 10

\* value > 0 (false for NaN)
Positive(value) == ~IsNaN(value) /\ value.v > 0

\* a gain that is the value itself
GainIsValue(value) == value

\* 1 + value and value * n
OnePlus(value) == IF IsNaN(value) THEN NaN ELSE Fin(1000 + value.v)
Times(value, n) == IF IsNaN(value) THEN NaN ELSE Fin(value.v * n)

CssAdjustments == { "brightness", "contrast", "saturation" }

\* early returns that apply the 0.01 threshold to every filter
SkippedWhenNegligible(filterType, value) == Negligible(value)

\* no early return
SkippedNever(filterType, value) == FALSE

\* the early returns of applyFilter
Skipped(filterType, value) ==
  \/ filterType \notin CssAdjustments /\ Negligible(value)
  \/ filterType \in CssAdjustments /\ StrictEquals(value, Fin(0))

Stage(type, arg, part) == [type |-> type, arg |-> arg, part |-> part]

\* applyCssFilterAndRedraw: nothing is drawn when the scratch canvas has no context
applyCssFilterAndRedraw(type, arg, scratchFail) ==
  IF scratchFail = 1 THEN << >> ELSE << Stage(type, arg, "full") >>

\* What one applyFilter call does to the working canvas: the stage it
\* applies, or nothing.  scratchFail = k > 0: the k-th scratch canvas the
\* call asks for has no 2D context.
applyFilter(filterType, value, scratchFail) ==
  IF Skipped(filterType, value) THEN << >>
  ELSE CASE filterType = "smoothing" ->
              IF Positive(value) THEN << Stage("smoothing", value, "full") >> ELSE << >>
         [] filterType = "brightness" ->
              applyCssFilterAndRedraw("brightness", OnePlus(value), scratchFail)
         [] filterType = "contrast" ->
              applyCssFilterAndRedraw("contrast", OnePlus(value), scratchFail)
         [] filterType = "blur" ->
              IF Positive(value)
              THEN applyCssFilterAndRedraw("blur", Times(value, 8), scratchFail)
              ELSE << >>
         [] filterType = "saturation" ->
              applyCssFilterAndRedraw("saturation", OnePlus(value), scratchFail)
         [] filterType = "backgroundBlur" ->
              IF ~Positive(value) THEN << >>
              ELSE IF scratchFail \in {1, 2} THEN << >>
              ELSE IF scratchFail \in {3, 4}
                   THEN << Stage("backgroundBlur", Times(value, 10), "blurOnly") >>
              ELSE << Stage("backgroundBlur", Times(value, 10), "full") >>
         [] OTHER -> << >>

\* ------------------------------------------------------------------------
\* The pixels of backgroundBlur and smoothing
\* ------------------------------------------------------------------------
Min(a, b) == IF a < b THEN a ELSE b
Max(a, b) == IF a < b THEN b ELSE a

\* Math.min(width, height) * 0.35, in hundredths of a pixel
focusRadius(width, height) == Min(width, height) * 35

\* a mask whose outer circle has three times the focus radius
outerRadiusWide(width, height) == focusRadius(width, height) * 30

\* the circles of createRadialGradient: focusRadius * 0.6 and
\* focusRadius * 1.4, in thousandths of a pixel
innerRadius(width, height) == focusRadius(width, height) * 6
outerRadius(width, height) == focusRadius(width, height) * 14

\* the radius of the colour stop 0.7, up to which the mask is opaque
opaqueRadius(width, height) ==
  innerRadius(width, height)
    + ((outerRadius(width, height) - innerRadius(width, height)) * 7) \div 10

\* The alpha of the mask at a point whose offset from (centerX, centerY) is
\* (dx2 / 2, dy2 / 2) pixels: 1 within the opaque radius, 0 from the outer
\* circle on, in between elsewhere.
maskAlpha(dx2, dy2, width, height) ==
  LET d4 == (dx2 * dx2 + dy2 * dy2) * 1000000
  IN IF d4 <= 4 * opaqueRadius(width, height) * opaqueRadius(width, height) THEN "opaque"
     ELSE IF d4 >= 4 * outerRadius(width, height) * outerRadius(width, height)
          THEN "transparent"
     ELSE "partial"

\* destination-in with the mask, then source-over on the blurred canvas:
\* what a pixel holds, the mask sampled at the centre of the pixel
pixelAfterMask(x, y, width, height) ==
  LET a == maskAlpha(2 * x + 1 - width, 2 * y + 1 - height, width, height)
  IN CASE a = "opaque" -> "sharp"
       [] a = "transparent" -> "blurred"
       [] OTHER -> "mixed"

\* what the pixel that holds the image centre and the pixel in the corner
\* (0, 0) hold after the stages
Focus(image, stages) ==
  LET width == image.naturalWidth
      height == image.naturalHeight
      bg == SelectSeq(stages, LAMBDA st : st.type = "backgroundBlur")
  IN IF bg = << >> THEN NoFocus
     ELSE IF bg[1].part = "blurOnly" THEN [centre |-> "blurred", corner |-> "blurred"]
     ELSE [centre |-> pixelAfterMask(width \div 2, height \div 2, width, height),
           corner |-> pixelAfterMask(0, 0, width, height)]

\* a kernel radius without the + 1
strengthNoPlusOne(value) == Max(1, (value.v * 5) \div 1000)

\* Math.max(1, Math.floor(value * 5) + 1)
strength(value) == Max(1, (value.v * 5) \div 1000 + 1)

\* Math.max(0.05, 1 - (value * 0.9)) and 1 - originalWeight, in ten-thousandths
originalWeight(value) == Max(500, 10000 - value.v * 9)
smoothWeight(value) == 10000 - originalWeight(value)

\* the kernel of the smoothing stage among stages
Kernel(stages) ==
  LET sm == SelectSeq(stages, LAMBDA st : st.type = "smoothing")
  IN IF sm = << >> THEN NoKernel
     ELSE [strength |-> strength(sm[1].arg),
           originalWeight |-> originalWeight(sm[1].arg),
           smoothWeight |-> smoothWeight(sm[1].arg)]

\* applyFilter reaches the default case of its switch and warns
Warns(filterType, value) ==
  ~Skipped(filterType, value) /\ filterType \notin KnownNames

\* the filter types console.warn is called with during the forEach
Warnings(entries) ==
  { entries[i].key : i \in { j \in 1..Len(entries) : Warns(entries[j].key, entries[j].val) } }

\* Object.entries(filters).forEach(applyFilter): the stages applied, in order
RECURSIVE ApplyAll(_, _)
ApplyAll(entries, scratchFail) ==
  IF entries = << >> THEN << >>
  ELSE applyFilter(Head(entries).key, Head(entries).val, scratchFail)
         \o ApplyAll(Tail(entries), scratchFail)

\* ------------------------------------------------------------------------
\* Filter state updates
\* ------------------------------------------------------------------------
\* the updater of updateFilter that clamps the stored value to [-1, 1]
updaterClamped(prevFilters, filterType, value, ref) ==
  LET n == Number(value)
      c == IF IsNaN(n) THEN n ELSE Fin(IF n.v > 1000 THEN 1000 ELSE IF n.v < -1000 THEN -1000 ELSE n.v)
  IN IF HasOwnProperty(prevFilters.entries, filterType)
        /\ StrictEquals(Get(prevFilters.entries, filterType), c)
     THEN prevFilters
     ELSE [ref |-> ref, entries |-> SpreadSet(prevFilters.entries, filterType, c)]

\* an updater that assigns to prevFilters and returns it
updaterInPlace(prevFilters, filterType, value, ref) ==
  [ref |-> prevFilters.ref,
   entries |-> SpreadSet(prevFilters.entries, filterType, Number(value))]

\* the updater function updateFilter hands to setInternalFilters; ref is the
\* identity a newly created object gets
updater(prevFilters, filterType, value, ref) ==
  LET newNumericValue == Number(value)
  IN IF HasOwnProperty(prevFilters.entries, filterType)
        /\ StrictEquals(Get(prevFilters.entries, filterType), newNumericValue)
     THEN prevFilters
     ELSE [ref |-> ref, entries |-> SpreadSet(prevFilters.entries, filterType, newNumericValue)]

\* a reset that leaves the last filter as it is
resetKeepsLast(prevFilters, ref) ==
  [ref |-> ref,
   entries |-> [ i \in 1..Len(defaultFilters) |->
                 IF i = Len(defaultFilters) /\ HasOwnProperty(prevFilters.entries, defaultFilters[i].key)
                 THEN [key |-> defaultFilters[i].key,
                       val |-> Get(prevFilters.entries, defaultFilters[i].key)]
                 ELSE defaultFilters[i] ]]

\* { ...defaultFilters }
resetValue(prevFilters, ref) == [ref |-> ref, entries |-> defaultFilters]

\* ------------------------------------------------------------------------
\* The debounce effect
\* ------------------------------------------------------------------------
\* a clearTimeout that cancels nothing
clearTimeoutNoop(ts, id) == ts

clearTimeout(ts, id) == { t \in ts : t.id # id }

\* a setTimeout that arms nothing
setTimeoutDropped(ts, id, image, flt) == ts

\* setTimeout(() => processImage(), 150): the callback closes over the
\* source and the filters of this render of the hook
setTimeout(ts, id, image, flt) == ts \cup { [id |-> id, img |-> image, filters |-> flt] }

\* The commit that follows a task: img, flt, pi and ip are the values the
\* task's set-state calls leave in originalImage, internalFilters,
\* processedImage and isProcessing.  When originalImage or processImage
\* (that is, the filters object) changed, the previous effect's cleanup and
\* then the effect run.
Commit(img, flt, pi, ip) ==
  LET changed == img # originalImage \/ flt.ref # internalFilters.ref
      cleared == IF debounceTimerId # 0 THEN clearTimeout(timers, debounceTimerId) ELSE timers
  IN /\ originalImage' = img
     /\ internalFilters' = flt
     /\ nextRef' = IF flt.ref = nextRef THEN nextRef + 1 ELSE nextRef
     /\ IF ~changed
        THEN /\ processedImage' = pi
             /\ isProcessing' = ip
             /\ UNCHANGED << timers, debounceTimerId, nextTimerId, superseded >>
        ELSE /\ superseded' = superseded \cup { t.id : t \in timers }
             /\ IF ValidSource(img)
                THEN /\ timers' = setTimeout(cleared, nextTimerId, img, flt)
                     /\ debounceTimerId' = nextTimerId
                     /\ nextTimerId' = nextTimerId + 1
                     /\ processedImage' = pi
                     /\ isProcessing' = ip
                ELSE /\ timers' = cleared
                     /\ debounceTimerId' = 0
                     /\ UNCHANGED nextTimerId
                     /\ processedImage' = NoResult
                     /\ isProcessing' = FALSE
     /\ UNCHANGED << microtasks, invoked, mounted, console, threw, uiBusy >>

\* a microtask queue that lets tasks in between
QueueDrainedAlways == TRUE

\* no Promise callback is queued: the event loop runs the next task only
\* then
QueueDrained == microtasks = << >>

\* a task that may start while a render is queued (the render deferred to
\* a task of its own instead of a microtask)
TaskMayRunDuringRender ==
  mounted /\ nextRef <= MaxRefs /\ nextTimerId <= MaxTimers

\* a task may start only when the microtask queue is empty; the bounds stop
\* the exploration when the next allocation would pass them
TaskMayRun ==
  mounted /\ QueueDrained /\ nextRef <= MaxRefs /\ nextTimerId <= MaxTimers

\* ------------------------------------------------------------------------
\* Operations of the hook
\* ------------------------------------------------------------------------
\* the set-state calls of setupCanvas and the commit that follows
setupCanvasCall(imageElement) ==
  IF InvalidElement(imageElement)
  THEN Commit(NoImage, internalFilters, NoResult, FALSE)
  ELSE Commit(imageElement, internalFilters, processedImage, isProcessing)

setupCanvas(imageElement) ==
  /\ TaskMayRun
  /\ setupCanvasCall(imageElement)
  /\ lastOp' = "setupCanvas"
  /\ UNCHANGED otherVars

\* the set-state call of updateFilter and the commit that follows
updateFilterCall(filterType, value) ==
  Commit(originalImage, updater(internalFilters, filterType, value, nextRef),
         processedImage, isProcessing)

updateFilter(filterType, value) ==
  /\ TaskMayRun
  /\ updateFilterCall(filterType, value)
  /\ lastOp' = "updateFilter"
  /\ UNCHANGED otherVars

\* the set-state call of resetFilters and the commit that follows
resetFiltersCall ==
  Commit(originalImage, resetValue(internalFilters, nextRef), processedImage, isProcessing)

resetFilters ==
  /\ TaskMayRun
  /\ resetFiltersCall
  /\ lastOp' = "resetFilters"
  /\ UNCHANGED otherVars

\* the timer callback: processImage() of the closure the timer was armed with
processImage(t) ==
  /\ QueueDrained
  /\ t \in timers
  /\ timers' = timers \ {t}
  /\ invoked' = invoked \cup {t.id}
  /\ IF ~ValidSource(t.img)
     THEN /\ processedImage' = NoResult
          /\ isProcessing' = FALSE
          /\ UNCHANGED microtasks
     ELSE /\ isProcessing' = TRUE
          /\ microtasks' = Append(microtasks, [img |-> t.img, filters |-> t.filters])
          /\ UNCHANGED processedImage
  /\ lastOp' = "processImage"
  /\ UNCHANGED << internalFilters, originalImage, debounceTimerId, nextTimerId, nextRef,
                  superseded, mounted, console, threw, uiBusy >>
  /\ UNCHANGED otherVars

\* a render whose catch block leaves the image of the previous render
renderResultKeepsOnThrow(job, ctx, scratchFail, throws) ==
  IF throws THEN processedImage
  ELSE IF ~ctx THEN NoResult
  ELSE LET stages == ApplyAll(job.filters.entries, scratchFail)
       IN [present |-> TRUE, img |-> job.img.id, filters |-> job.filters.ref,
           stages |-> stages, focus |-> Focus(job.img, stages), kernel |-> Kernel(stages)]

\* what the try block hands to setProcessedImage: null when the working
\* canvas has no context or a call throws, else the data URL of the canvas
\* after the stages
renderResult(job, ctx, scratchFail, throws) ==
  IF throws \/ ~ctx THEN NoResult
  ELSE LET stages == ApplyAll(job.filters.entries, scratchFail)
       IN [present |-> TRUE, img |-> job.img.id, filters |-> job.filters.ref,
           stages |-> stages, focus |-> Focus(job.img, stages), kernel |-> Kernel(stages)]

\* a render without the finally block: isProcessing stays as it is when a
\* call throws
busyAfterRenderNoFinally(throws) == throws /\ isProcessing

\* the finally block: setIsProcessing(false)
busyAfterRender(throws) == FALSE

\* The canvas of a source of height 0 has height 0: drawImage of the source
\* draws nothing, and the first stage that reads the canvas (getImageData,
\* or drawImage of it onto a scratch canvas that has a context) throws.
DrawThrows(job, scratchFail) ==
  /\ job.img.naturalHeight = 0
  /\ ApplyAll(job.filters.entries, IF scratchFail = 1 THEN 1 ELSE 0) # << >>

\* the callback of Promise.resolve().then: the render itself.  ctx: the
\* working canvas has a 2D context; scratchFail: which scratch canvas of a
\* stage has none (0: all have one); throws: a call of the render throws.
processImageThen(ctx, scratchFail, throws) ==
  /\ microtasks # << >>
  /\ (ctx /\ DrawThrows(Head(microtasks), scratchFail)) => throws
  /\ LET job == Head(microtasks)
     IN /\ microtasks' = Tail(microtasks)
        /\ processedImage' = renderResult(job, ctx, scratchFail, throws)
        /\ console' = IF ctx THEN Warnings(job.filters.entries) ELSE {}
  /\ isProcessing' = busyAfterRender(throws)
  /\ threw' = (threw \/ throws)
  /\ lastOp' = "render"
  /\ UNCHANGED << internalFilters, originalImage, timers, debounceTimerId, nextTimerId,
                  nextRef, invoked, superseded, mounted, uiBusy >>
  /\ UNCHANGED otherVars

\* the component is unmounted: the cleanup of the debounce effect runs
unmount ==
  /\ mounted
  /\ microtasks = << >>
  /\ mounted' = FALSE
  /\ timers' = IF debounceTimerId # 0 THEN clearTimeout(timers, debounceTimerId) ELSE timers
  /\ lastOp' = "unmount"
  /\ UNCHANGED << internalFilters, originalImage, processedImage, isProcessing,
                  debounceTimerId, nextTimerId, nextRef, microtasks, invoked, superseded,
                  console, threw, uiBusy >>
  /\ UNCHANGED otherVars

\* the browser paints the page between two tasks: the page shows the
\* "Processing..." state of the isProcessing it was rendered with
paint ==
  /\ mounted
  /\ microtasks = << >>
  /\ uiBusy' = isProcessing
  /\ UNCHANGED << internalFilters, originalImage, processedImage, isProcessing, timers,
                  debounceTimerId, nextTimerId, nextRef, microtasks, invoked, superseded,
                  lastOp, mounted, console, threw >>
  /\ UNCHANGED otherVars

\* e.dataTransfer.files[0] or e.target.files[0] when there is none
NoFile == [name |-> "", type |-> "", size |-> 0]

\* no link was clicked
NoLink == [href |-> "none", of |-> NoResult]

\* no file name, no download, no pixel buffer, no file being read
CropIdle == originalFileName = "" /\ detached = {}
DownloadIdle == downloadProgress = 0 /\ link = NoLink /\ downloads = {}
PixelIdle == data = << >> /\ drawn = << >> /\ window = << >>
UploaderIdle ==
  /\ isLoading = FALSE
  /\ error = ""
  /\ reads = {}
  /\ uploadTimers = {}
  /\ debounceTimeoutRef = 0
  /\ uploaded = << >>
  /\ ended = {}
  /\ nextFile = 1
  /\ dialog = FALSE
  /\ lastFile = NoFile

Init ==
  /\ internalFilters = [ref |-> 1, entries |-> defaultFilters]
  /\ originalImage = NoImage
  /\ processedImage = NoResult
  /\ isProcessing = FALSE
  /\ timers = {}
  /\ debounceTimerId = 0
  /\ nextTimerId = 1
  /\ nextRef = 2
  /\ microtasks = << >>
  /\ invoked = {}
  /\ superseded = {}
  /\ lastOp = "mount"
  /\ mounted = TRUE
  /\ console = {}
  /\ threw = FALSE
  /\ uiBusy = FALSE
  /\ sourceImage = 0
  /\ imageForFiltering = 0
  /\ isBaseImageElementLoading = FALSE
  /\ imgSrc = 0
  /\ isCompressing = FALSE
  /\ CropIdle /\ DownloadIdle /\ PixelIdle /\ UploaderIdle

Next ==
  \/ \E e \in ImageElements : setupCanvas(e)
  \/ \E n \in UpdateNames, v \in RawValues : updateFilter(n, v)
  \/ resetFilters
  \/ \E t \in timers : processImage(t)
  \/ \E ctx \in BOOLEAN, scratchFail \in 0..4, throws \in BOOLEAN :
       processImageThen(ctx, scratchFail, throws)
  \/ unmount
  \/ paint

Spec == Init /\ [][Next]_vars

\* ------------------------------------------------------------------------
\* The render alone, for every filter set of a family
\* ------------------------------------------------------------------------
\* filter values: neutral, below and at the 0.01 threshold, in and out of
\* the domains, and NaN
RenderValues == { Fin(0), Fin(5), Fin(-5), Fin(10), Fin(200), Fin(-1000), NaN }

\* the neutral set with up to two filters changed, and with or without a
\* property that is no filter
RenderFilterSets ==
  LET known == { SpreadSet(SpreadSet(defaultFilters, a, x), b, y) :
                   a \in KnownNames, b \in KnownNames, x \in RenderValues, y \in RenderValues }
  IN known \cup { SpreadSet(e, "sepia", x) : e \in known, x \in { Fin(0), Fin(200) } }

\* the updateFilter calls that build entries from the neutral set
UpdatesFor(entries) ==
  Cardinality({ i \in 1..Len(entries) :
                  entries[i].key \notin KnownNames \/ entries[i].val # Fin(0) })

\* The state in which the render of entries on image starts: the filters
\* were set, then the source, and the timer of the source has fired.
RenderStart(image, entries) ==
  /\ internalFilters = [ref |-> 1 + UpdatesFor(entries), entries |-> entries]
  /\ originalImage = image
  /\ processedImage = NoResult
  /\ isProcessing = TRUE
  /\ timers = {}
  /\ debounceTimerId = 1
  /\ nextTimerId = 2
  /\ nextRef = 2 + UpdatesFor(entries)
  /\ microtasks = << [img |-> image, filters |-> [ref |-> 1 + UpdatesFor(entries), entries |-> entries]] >>
  /\ invoked = {1}
  /\ superseded = {}
  /\ lastOp = "processImage"
  /\ mounted = TRUE
  /\ console = {}
  /\ threw = FALSE
  /\ uiBusy = FALSE
  /\ sourceImage = 0
  /\ imageForFiltering = 0
  /\ isBaseImageElementLoading = FALSE
  /\ imgSrc = 0
  /\ isCompressing = FALSE
  /\ CropIdle /\ DownloadIdle /\ UploaderIdle

RenderInit ==
  \E e \in RenderFilterSets, i \in { i \in ImageElements : ~InvalidElement(i) } :
    RenderStart(i, e) /\ PixelIdle

RenderNext ==
  \E ctx \in BOOLEAN, scratchFail \in 0..4, throws \in BOOLEAN :
    processImageThen(ctx, scratchFail, throws)

RenderSpec == RenderInit /\ [][RenderNext]_vars

\* the render of every filter set of the family, where a queued Promise
\* callback is run: the microtask queue is drained before the event loop
\* does anything else
FairSpec == RenderSpec /\ WF_vars(RenderNext)

\* ------------------------------------------------------------------------
\* The debounce with timers that fire
\* ------------------------------------------------------------------------
\* the changes of the source and of one filter
DebounceElements == { e \in ImageElements : e.id \in {0, 1} } \cup { ZeroHeightImage }
DebounceValues == { NumStr(200), TextStr }

\* the timer callback of an armed timer
TimerFires == \E t \in timers : processImage(t)

\* the Promise callback of a queued render, with all its surfaces
RenderRuns == \E ctx \in BOOLEAN, throws \in BOOLEAN : processImageThen(ctx, 0, throws)

DebounceNext ==
  \/ \E e \in DebounceElements : setupCanvas(e)
  \/ \E v \in DebounceValues : updateFilter("brightness", v)
  \/ resetFilters
  \/ TimerFires
  \/ RenderRuns
  \/ unmount

\* A timer that stays armed fires after its 150 ms, and a queued Promise
\* callback is run.
DebounceSpec ==
  Init /\ [][DebounceNext]_vars /\ WF_vars(TimerFires) /\ WF_vars(RenderRuns)

\* ------------------------------------------------------------------------
\* The render of backgroundBlur on images of every small size, and of
\* smoothing for every value of its domain
\* ------------------------------------------------------------------------
\* the Image element once img.src = url has loaded
Loaded(url) == CHOOSE e \in ImageElements : e.id = url

\* loaded images of width and height 1..MaxSide
SizedImages ==
  { [id |-> 1, isImage |-> TRUE, complete |-> TRUE, naturalWidth |-> w, naturalHeight |-> h] :
      w \in 1..MaxSide, h \in 1..MaxSide }

\* backgroundBlur: below and at the 0.01 threshold, in the domain, negative
BackgroundBlurValues == { Fin(5), Fin(10), Fin(200), Fin(1000), Fin(-200) }

MaskInit ==
  \E i \in SizedImages, v \in BackgroundBlurValues :
    RenderStart(i, SpreadSet(defaultFilters, "backgroundBlur", v)) /\ PixelIdle

MaskSpec == MaskInit /\ [][RenderNext]_vars

\* smoothing: every thousandth from below the threshold to above the domain
SmoothingValues == { Fin(v) : v \in 0..1100 }

SmoothInit ==
  \E v \in SmoothingValues :
    RenderStart(Loaded(1), SpreadSet(defaultFilters, "smoothing", v)) /\ PixelIdle

SmoothSpec == SmoothInit /\ [][RenderNext]_vars

\* ------------------------------------------------------------------------
\* The pixel loop of the smoothing stage
\* ------------------------------------------------------------------------
\* loaded images of at most MaxPixels pixels
PixelImages ==
  { [id |-> 1, isImage |-> TRUE, complete |-> TRUE, naturalWidth |-> w, naturalHeight |-> h] :
      << w, h >> \in { s \in (1..MaxPixels) \X (1..MaxPixels) : s[1] * s[2] <= MaxPixels } }

\* smoothing values of strength 1, 3 and 6, and one above the domain
PixelSmoothing == { Fin(100), Fin(500), Fin(1000), Fin(1100) }

\* r, g, b, a of pixel p: red is dark or bright, green is its opposite,
\* blue is constant and alpha alternates between opaque and half
PixelOf(r, p) ==
  << r, IF r = 0 THEN 200 ELSE 40, 90, IF p % 2 = 0 THEN 255 ELSE 128 >>

\* ctx.getImageData(0, 0, width, height).data for n pixels: one flat array
Buffers(n) ==
  { [ k \in 1..(4 * n) |-> PixelOf(red[(k - 1) \div 4], (k - 1) \div 4)[((k - 1) % 4) + 1] ] :
      red \in [0..(n - 1) -> {0, 255}] }

\* a bounds test on the index of the sample alone
InBoundsOfBuffer(sampleX, sampleY, width, height) ==
  /\ sampleY * width + sampleX >= 0
  /\ sampleY * width + sampleX < width * height

\* sampleX >= 0 && sampleX < width && sampleY >= 0 && sampleY < height
InBounds(sampleX, sampleY, width, height) ==
  sampleX >= 0 /\ sampleX < width /\ sampleY >= 0 /\ sampleY < height

\* currentPixelX and currentPixelY of the pixel at index i
currentPixelY(i, width) == i \div (width * 4)
currentPixelX(i, width) == (i % (width * 4)) \div 4

\* the << sampleX, sampleY >> of the window of index i that pass the test;
\* count is their number
Samples(i, width, height, s) ==
  { << currentPixelX(i, width) + x, currentPixelY(i, width) + y >> :
      << x, y >> \in { o \in (-s..s) \X (-s..s) :
                         InBounds(currentPixelX(i, width) + o[1],
                                  currentPixelY(i, width) + o[2], width, height) } }

\* sum += data[sampleIndex] over the samples, sampleIndex = (sampleY * width + sampleX) * 4 + j
RECURSIVE SumOf(_, _, _, _)
SumOf(d, samples, width, j) ==
  IF samples = {} THEN 0
  ELSE LET sample == CHOOSE sample \in samples : TRUE
       IN d[(sample[2] * width + sample[1]) * 4 + j + 1]
            + SumOf(d, samples \ {sample}, width, j)

\* Math.round(data[i + j] * originalWeight + (sum / count) * smoothWeight)
Blend(own, sum, count, value) ==
  LET num == own * originalWeight(value) * count + sum * smoothWeight(value)
      den == 10000 * count
  IN (2 * num + den) \div (2 * den)

\* a loop over all four channels
ChannelsWithAlpha == 0..3

\* for (let j = 0; j < 3; j++)
Channels == 0..2

\* a window that reads a copy of the input of the stage
readCopy(d, copy) == copy

\* the window reads the buffer the loop writes
readBuffer(d, copy) == d

\* the body of the loop over j: data[i + j] of d is written
smoothChannel(d, copy, i, j, width, height, value) ==
  LET samples == Samples(i, width, height, strength(value))
      count == Cardinality(samples)
      sum == SumOf(readBuffer(d, copy), samples, width, j)
  IN IF count > 0
     THEN [d EXCEPT ![i + j + 1] = Blend(d[i + j + 1], sum, count, value)]
     ELSE d

RECURSIVE smoothChannels(_, _, _, _, _, _, _)
smoothChannels(d, copy, i, j, width, height, value) ==
  IF j \notin Channels THEN d
  ELSE smoothChannels(smoothChannel(d, copy, i, j, width, height, value),
                      copy, i, j + 1, width, height, value)

\* for (let i = 0; i < data.length; i += 4)
RECURSIVE smoothPixels(_, _, _, _, _, _)
smoothPixels(d, copy, i, width, height, value) ==
  IF i >= Len(d) THEN d
  ELSE smoothPixels(smoothChannels(d, copy, i, 0, width, height, value),
                    copy, i + 4, width, height, value)

\* the state of the hook
hookVars ==
  << internalFilters, originalImage, processedImage, isProcessing, timers,
     debounceTimerId, nextTimerId, nextRef, microtasks, invoked, superseded, lastOp,
     mounted, console, threw, uiBusy >>

\* case "smoothing" of applyFilter on the pixels of the working canvas
smoothingStage ==
  LET value == Get(internalFilters.entries, "smoothing")
      width == originalImage.naturalWidth
      height == originalImage.naturalHeight
  IN /\ data # << >>
     /\ drawn = << >>
     /\ applyFilter("smoothing", value, 0) # << >>
     /\ drawn' = data
     /\ data' = smoothPixels(data, data, 0, width, height, value)
     /\ window' = [ p \in 1..(Len(data) \div 4) |->
                      [count |-> Cardinality(Samples(4 * (p - 1), width, height, strength(value))),
                       samples |-> Samples(4 * (p - 1), width, height, strength(value))] ]
     /\ UNCHANGED << hookVars, appVars, cropVars, downloadVars, uploaderVars >>

PixelInit ==
  \E e \in PixelImages, v \in PixelSmoothing :
    \E d \in Buffers(e.naturalWidth * e.naturalHeight) :
      /\ RenderStart(e, SpreadSet(defaultFilters, "smoothing", v))
      /\ data = d
      /\ drawn = << >>
      /\ window = << >>

PixelNext == smoothingStage

PixelSpec == PixelInit /\ [][PixelNext]_vars

\* ------------------------------------------------------------------------
\* ImageUploader
\* ------------------------------------------------------------------------
\* 10 * 1024 * 1024
MaxFileSize == 10 * 1024 * 1024

\* the files a drop or the file dialog may carry: every type at the size
\* limit and one byte above it
Files ==
  { [name |-> "me.png", type |-> t, size |-> z] :
      t \in { "image/jpeg", "image/png", "image/jpg", "image/gif", "application/pdf" },
      z \in { MaxFileSize, MaxFileSize + 1 } }

\* a list of types that also holds image/gif
validTypesWithGif == { "image/jpeg", "image/png", "image/jpg", "image/gif" }

validTypes == { "image/jpeg", "image/png", "image/jpg" }

\* validateFile: the message it sets, "" when it returns true
validateFile(file) ==
  IF file = NoFile THEN "No file selected."
  ELSE IF file.type \notin validTypes
       THEN "Invalid file type. Please upload a JPG, JPEG, or PNG image."
  ELSE IF file.size > MaxFileSize
       THEN "Image size is too large. Please upload an image smaller than 10MB."
  ELSE ""

\* handlers that do not test isLoading
BusyNever == FALSE

\* if (isLoading) return
Busy == isLoading

\* clearTimeout(debounceTimeoutRef.current)
clearUploadTimeout == { t \in uploadTimers : t.id # debounceTimeoutRef }

\* the delay of the timeout of reader.onload
UploadDelay == 300

\* processFile: validation, then the FileReader is started; throws: the
\* call of readAsDataURL throws
processFile(file, throws) ==
  IF Busy
  THEN UNCHANGED << isLoading, error, reads, uploadTimers, ended, nextFile >>
  ELSE IF validateFile(file) # ""
  THEN /\ error' = validateFile(file)
       /\ UNCHANGED << isLoading, reads, uploadTimers, ended, nextFile >>
  ELSE IF throws
  THEN /\ uploadTimers' = clearUploadTimeout
       /\ error' = "An unexpected error occurred while trying to read the file. Please ensure the file is valid."
       /\ isLoading' = FALSE
       /\ ended' = ended \cup { [file |-> nextFile, how |-> "exception"] }
       /\ nextFile' = nextFile + 1
       /\ UNCHANGED reads
  ELSE /\ isLoading' = TRUE
       /\ error' = ""
       /\ reads' = reads \cup {nextFile}
       /\ nextFile' = nextFile + 1
       /\ UNCHANGED << uploadTimers, ended >>

\* an event of the page may be handled
UploaderMayRun == nextFile <= MaxFiles

handleDrop(file, throws) ==
  /\ UploaderMayRun
  /\ IF Busy
     THEN UNCHANGED << isLoading, error, reads, uploadTimers, ended, nextFile >>
     ELSE IF file # NoFile
     THEN processFile(file, throws)
     ELSE /\ error' = "No file was dropped or the file could not be accessed."
          /\ UNCHANGED << isLoading, reads, uploadTimers, ended, nextFile >>
  /\ lastFile' = file
  /\ lastOp' = "handleDrop"
  /\ UNCHANGED << debounceTimeoutRef, uploaded, dialog >>

\* a click or Enter on the drop zone: fileInputRef.current.click()
handleClick ==
  /\ UploaderMayRun
  /\ dialog' = IF Busy THEN dialog ELSE TRUE
  /\ lastOp' = "handleClick"
  /\ UNCHANGED << isLoading, error, reads, uploadTimers, debounceTimeoutRef, uploaded,
                  ended, nextFile, lastFile >>

\* the change event of the input when the file dialog closes
handleFileInput(file, throws) ==
  /\ UploaderMayRun
  /\ dialog
  /\ dialog' = FALSE
  /\ IF Busy
     THEN UNCHANGED << isLoading, error, reads, uploadTimers, ended, nextFile >>
     ELSE IF file # NoFile
     THEN processFile(file, throws)
     ELSE UNCHANGED << isLoading, error, reads, uploadTimers, ended, nextFile >>
  /\ lastFile' = file
  /\ lastOp' = "handleFileInput"
  /\ UNCHANGED << debounceTimeoutRef, uploaded >>

\* reader.onload: the timeout that will call onImageUpload is armed
readerOnload(file) ==
  /\ file \in reads
  /\ reads' = reads \ {file}
  /\ uploadTimers' = clearUploadTimeout \cup { [id |-> file, delay |-> UploadDelay] }
  /\ debounceTimeoutRef' = file
  /\ ended' = ended \cup { [file |-> file, how |-> "load"] }
  /\ lastOp' = "reader.onload"
  /\ UNCHANGED << isLoading, error, uploaded, nextFile, dialog, lastFile >>

\* a reader.onerror that leaves isLoading as it is
loadingAfterFailureStays == isLoading

\* setIsLoading(false) of reader.onerror and reader.onabort
loadingAfterFailure == FALSE

\* reader.onerror and reader.onabort
readerFails(file, how) ==
  /\ file \in reads
  /\ reads' = reads \ {file}
  /\ uploadTimers' = clearUploadTimeout
  /\ error' = IF how = "error"
              THEN "Failed to read the file. It might be corrupted or an unsupported format. Please try a different file."
              ELSE "File reading was aborted. Please try again."
  /\ isLoading' = loadingAfterFailure
  /\ ended' = ended \cup { [file |-> file, how |-> how] }
  /\ lastOp' = "reader.on" \o how
  /\ UNCHANGED << debounceTimeoutRef, uploaded, nextFile, dialog, lastFile >>

\* the callback of the timeout: onImageUpload(e.target.result, file.name)
uploadTimeout(t) ==
  /\ t \in uploadTimers
  /\ uploadTimers' = uploadTimers \ {t}
  /\ uploaded' = Append(uploaded, t.id)
  /\ isLoading' = FALSE
  /\ lastOp' = "onImageUpload"
  /\ UNCHANGED << error, reads, debounceTimeoutRef, ended, nextFile, dialog, lastFile >>

\* what the actions of ImageUploader leave alone
UploaderFrame ==
  UNCHANGED << internalFilters, originalImage, processedImage, isProcessing, timers,
               debounceTimerId, nextTimerId, nextRef, microtasks, invoked, superseded,
               mounted, console, threw, uiBusy, appVars, cropVars, downloadVars, pixelVars >>

ReadEnds ==
  \/ \E f \in reads : readerOnload(f) /\ UploaderFrame
  \/ \E f \in reads, how \in { "error", "abort" } : readerFails(f, how) /\ UploaderFrame

UploadTimeoutFires == \E t \in uploadTimers : uploadTimeout(t) /\ UploaderFrame

UploaderNext ==
  \/ \E f \in Files \cup {NoFile}, throws \in BOOLEAN : handleDrop(f, throws) /\ UploaderFrame
  \/ handleClick /\ UploaderFrame
  \/ \E f \in Files \cup {NoFile}, throws \in BOOLEAN : handleFileInput(f, throws) /\ UploaderFrame
  \/ ReadEnds
  \/ UploadTimeoutFires

\* every read ends, and an armed timeout fires
UploaderSpec ==
  Init /\ [][UploaderNext]_vars /\ WF_vars(ReadEnds) /\ WF_vars(UploadTimeoutFires)

\* ------------------------------------------------------------------------
\* App with FilterControls, ImageEditor and DownloadButton
\* ------------------------------------------------------------------------
\* data URLs: the one ImageUploader hands to onImageUpload, and the one a
\* crop of it encodes to
UploadUrls == {1}

\* croppedCanvas.toDataURL of the Cropper whose src is imageUrl
applyCrop(imageUrl) == imageUrl + 1

CropUrls == { applyCrop(u) : u \in UploadUrls }

\* a Cropper that is given the image the filters apply to
CropperSrcIsFiltered == imageForFiltering

\* imageUrl={sourceImage}: the src of the Cropper of ImageEditor
CropperSrc == sourceImage

\* e.target.value of the sliders the page moves
SliderNames == { "brightness", "backgroundBlur" }
SliderValues == { NumStr(200), NumStr(0) }

\* parseFloat of a string
parseFloat(x) == IF x.tag = "numeric" THEN Fin(x.v) ELSE NaN

isEditingAreaLoading == isBaseImageElementLoading \/ isProcessing

\* FilterControls forwards every change, whatever its disabled prop
FilterControlsNeverDisabled == FALSE

\* the disabled prop App hands to FilterControls
FilterControlsDisabled == isEditingAreaLoading

\* the disabled attribute of the download button
DownloadDisabled == ~processedImage.present \/ isCompressing

\* the effect of FilterControls: a defined filter holds a number that is not 0
hasActiveFilters ==
  \E k \in KnownNames :
    /\ HasOwnProperty(internalFilters.entries, k)
    /\ TypeOf(Get(internalFilters.entries, k)) = "number"
    /\ ~StrictEquals(Get(internalFilters.entries, k), Fin(0))

\* an event handler may start when the microtask queue is empty
EventMayRun == mounted /\ QueueDrained

\* a task that calls no set-state function of the hook
NoHookChange == Commit(originalImage, internalFilters, processedImage, isProcessing)

\* a crop that calls resetFilters
CropResetsFilters ==
  Commit(originalImage, [ref |-> nextRef, entries |-> defaultFilters], processedImage, isProcessing)

\* handleImageCropped calls no set-state function of the hook
CropHookChange == NoHookChange

\* The effect of App on imageForFiltering, run in the commit that changes
\* it to url: the handlers of the previous Image are detached and a new
\* Image starts to load.
LoadImage(url) ==
  IF url = imageForFiltering
  THEN UNCHANGED << isBaseImageElementLoading, imgSrc, detached >>
  ELSE /\ isBaseImageElementLoading' = TRUE
       /\ imgSrc' = url
       /\ detached' = IF imgSrc = 0 THEN detached ELSE detached \cup {imgSrc}

\* fileName || "edited-photo"
OrFallback(fileName) == IF fileName = "" THEN "edited-photo" ELSE fileName

handleImageUpload(imageDataUrl, fileName) ==
  /\ EventMayRun /\ nextRef <= MaxAppRefs /\ nextTimerId <= MaxAppTimers
  /\ sourceImage = 0
  /\ sourceImage' = imageDataUrl
  /\ imageForFiltering' = imageDataUrl
  /\ originalFileName' = OrFallback(fileName)
  /\ resetFiltersCall
  /\ LoadImage(imageDataUrl)
  /\ lastOp' = "handleImageUpload"
  /\ UNCHANGED isCompressing
  /\ UNCHANGED << downloadVars, pixelVars, uploaderVars >>

\* applyCrop of ImageEditor calls onImageCropped
handleImageCropped(croppedImageDataUrl) ==
  /\ EventMayRun
  /\ sourceImage # 0
  /\ imageForFiltering' = croppedImageDataUrl
  /\ CropHookChange
  /\ LoadImage(croppedImageDataUrl)
  /\ lastOp' = "handleImageCropped"
  /\ UNCHANGED << sourceImage, isCompressing, originalFileName >>
  /\ UNCHANGED << downloadVars, pixelVars, uploaderVars >>

\* img.onload
onload ==
  /\ EventMayRun /\ nextTimerId <= MaxAppTimers
  /\ imgSrc # 0
  /\ setupCanvasCall(Loaded(imgSrc))
  /\ isBaseImageElementLoading' = FALSE
  /\ imgSrc' = 0
  /\ lastOp' = "onload"
  /\ UNCHANGED << sourceImage, imageForFiltering, isCompressing >>
  /\ UNCHANGED << cropVars, downloadVars, pixelVars, uploaderVars >>

\* img.onerror
onerror ==
  /\ EventMayRun
  /\ imgSrc # 0
  /\ setupCanvasCall(NoImage)
  /\ isBaseImageElementLoading' = FALSE
  /\ imgSrc' = 0
  /\ lastOp' = "onerror"
  /\ UNCHANGED << sourceImage, imageForFiltering, isCompressing >>
  /\ UNCHANGED << cropVars, downloadVars, pixelVars, uploaderVars >>

\* a handler that runs although the cleanup of its effect has run
HandlerRunsAlways(didCancel) == TRUE

\* img.onload = null and the test of didCancel
HandlerRuns(didCancel) == ~didCancel

\* the load or error event of an Image whose effect was cleaned up
detachedLoadEnds(src) ==
  /\ EventMayRun /\ nextTimerId <= MaxAppTimers
  /\ src \in detached
  /\ detached' = detached \ {src}
  /\ IF HandlerRuns(TRUE)
     THEN setupCanvasCall(Loaded(src)) /\ isBaseImageElementLoading' = FALSE
     ELSE NoHookChange /\ UNCHANGED isBaseImageElementLoading
  /\ lastOp' = "detachedLoadEnds"
  /\ UNCHANGED << sourceImage, imageForFiltering, imgSrc, isCompressing, originalFileName >>
  /\ UNCHANGED << downloadVars, pixelVars, uploaderVars >>

handleSliderChange(filterName, value) ==
  /\ EventMayRun /\ nextRef <= MaxAppRefs /\ nextTimerId <= MaxAppTimers
  /\ imageForFiltering # 0
  /\ IF ~FilterControlsDisabled
     THEN updateFilterCall(filterName, parseFloat(value))
     ELSE NoHookChange
  /\ lastOp' = "handleSliderChange"
  /\ UNCHANGED otherVars

handleResetFiltersClick ==
  /\ EventMayRun /\ nextRef <= MaxAppRefs /\ nextTimerId <= MaxAppTimers
  /\ imageForFiltering # 0
  /\ hasActiveFilters
  /\ IF ~FilterControlsDisabled
     THEN resetFiltersCall
     ELSE NoHookChange
  /\ lastOp' = "handleResetFiltersClick"
  /\ UNCHANGED otherVars

\* Math.round(progress * 100) of the onProgress calls
ProgressValues == { 50, 100 }

\* a click on the download button: handleDownload up to its first await
handleDownload ==
  /\ EventMayRun
  /\ imageForFiltering # 0
  /\ ~DownloadDisabled
  /\ IF ~processedImage.present
     THEN UNCHANGED << isCompressing, downloadVars >>
     ELSE /\ isCompressing' = TRUE
          /\ downloadProgress' = 0
          /\ downloads' = downloads \cup {processedImage}
          /\ UNCHANGED link
  /\ NoHookChange
  /\ lastOp' = "handleDownload"
  /\ UNCHANGED << sourceImage, imageForFiltering, isBaseImageElementLoading, imgSrc >>
  /\ UNCHANGED << cropVars, pixelVars, uploaderVars >>

\* onProgress of imageCompression
onProgress(progress) ==
  /\ EventMayRun
  /\ downloads # {}
  /\ downloadProgress < progress
  /\ downloadProgress' = progress
  /\ NoHookChange
  /\ lastOp' = "onProgress"
  /\ UNCHANGED << appVars, cropVars, link, downloads, pixelVars, uploaderVars >>

\* a download whose finally block is missing when compression failed
busyAfterDownloadNoFinally(compressed) == ~compressed

\* finally { setIsCompressing(false); setDownloadProgress(0) }
busyAfterDownload(compressed) == FALSE

\* compressImage: the object URL of the compressed blob, or in its catch
\* the URL it was given
compressImage(imageUrl, compressed) ==
  IF compressed THEN [href |-> "blob", of |-> imageUrl]
  ELSE [href |-> "data", of |-> imageUrl]

\* handleDownload after its await: the link is clicked, then the finally block
downloaded(compressed) ==
  /\ EventMayRun
  /\ \E d \in downloads :
       /\ downloads' = downloads \ {d}
       /\ link' = compressImage(d, compressed)
  /\ isCompressing' = busyAfterDownload(compressed)
  /\ downloadProgress' = IF busyAfterDownload(compressed) THEN downloadProgress ELSE 0
  /\ NoHookChange
  /\ lastOp' = "downloaded"
  /\ UNCHANGED << sourceImage, imageForFiltering, isBaseImageElementLoading, imgSrc >>
  /\ UNCHANGED << cropVars, pixelVars, uploaderVars >>

\* the names of the files ImageUploader hands over: file.name, or none
FileNames == { "", "me.png" }

AppNext ==
  \/ \E u \in UploadUrls, n \in FileNames : handleImageUpload(u, n)
  \/ handleImageCropped(applyCrop(CropperSrc))
  \/ onload
  \/ onerror
  \/ \E u \in detached : detachedLoadEnds(u)
  \/ \E n \in SliderNames, v \in SliderValues : handleSliderChange(n, v)
  \/ handleResetFiltersClick
  \/ handleDownload
  \/ \E c \in BOOLEAN : downloaded(c)
  \/ \E t \in timers : processImage(t)
  \/ \E ctx \in BOOLEAN, throws \in BOOLEAN : processImageThen(ctx, 0, throws)

AppSpec == Init /\ [][AppNext]_vars

\* The page with its download button: an upload, its load and renders, a
\* slider that moves, and downloads.  The queued render runs and a
\* download that waits for compressImage goes on.
RenderGoesOn == \E ctx \in BOOLEAN, throws \in BOOLEAN : processImageThen(ctx, 0, throws)

DownloadGoesOn == \E c \in BOOLEAN : downloaded(c)

DownloadNext ==
  \/ \E u \in UploadUrls : handleImageUpload(u, "me.png")
  \/ onload
  \/ \E v \in SliderValues : handleSliderChange("brightness", v)
  \/ \E t \in timers : processImage(t)
  \/ RenderGoesOn
  \/ handleDownload
  \/ \E p \in ProgressValues : onProgress(p)
  \/ DownloadGoesOn

DownloadSpec ==
  Init /\ [][DownloadNext]_vars /\ WF_vars(RenderGoesOn) /\ WF_vars(DownloadGoesOn)

\* ------------------------------------------------------------------------
\* Properties
\* ------------------------------------------------------------------------
\* the closure a timer armed now would hold
CurrentJob(id) == [id |-> id, img |-> originalImage, filters |-> internalFilters]

\* position of a filter name in the order of defaultFilters
Pos(name) == CHOOSE i \in 1..Len(FilterNames) : FilterNames[i] = name

\* the known filter names among the keys of entries, in enumeration order
KnownKeys(entries) == SelectSeq(Keys(entries), LAMBDA k : k \in KnownNames)

\* the parameter of the stage of a filter whose stored value is value
StageArg(type, value) ==
  CASE type \in CssAdjustments -> OnePlus(value)
    [] type = "blur" -> Times(value, 8)
    [] type = "backgroundBlur" -> Times(value, 10)
    [] OTHER -> value

\* an element that is null, no image element, not loaded, or of width 0
AbsentOrInvalid(e) ==
  e = NoImage \/ ~e.isImage \/ ~e.complete \/ e.naturalWidth = 0

\* C1: with a valid source, a burst of filter changes that each arrive
\* before the timer of the previous one fired leads to exactly one
\* processImage invocation, made with the filters of the last change: at
\* most one timer is armed, it holds the current source and the current
\* filter object, a timer armed when a later change arrived never calls
\* processImage, and the job of the latest change is either still armed or
\* was invoked, never both (as long as the component is mounted).
C1_DebounceRendersLastChangeOnce ==
  /\ Cardinality(timers) <= 1
  /\ \A t \in timers : t = CurrentJob(debounceTimerId)
  /\ invoked \cap superseded = {}
  /\ \A t \in timers : t.id \notin invoked \cup superseded
  /\ \A i \in 1..Len(microtasks) :
       microtasks[i].filters = internalFilters /\ microtasks[i].img = originalImage
  /\ (mounted /\ ValidSource(originalImage)) =>
       /\ debounceTimerId # 0
       /\ (debounceTimerId \in invoked) # (timers # {})
  /\ mounted =>
       \A id \in 1..(nextTimerId - 1) :
         id \in invoked \cup superseded \/ \E t \in timers : t.id = id

\* two changes were superseded and the render of the last one is published
C1_Witness ==
  /\ Cardinality(superseded) >= 2
  /\ lastOp = "render"
  /\ debounceTimerId \in invoked
  /\ processedImage.present
  /\ processedImage.filters = internalFilters.ref
  /\ internalFilters.ref = 3

\* C2: whenever the source is absent (setupCanvas got null, a non-image, an
\* unloaded image or an image of width 0), processedImage is null,
\* isProcessing is false, no timer is armed and no render is queued; and
\* setupCanvas with such an element leads to that state from any state.
C2_AbsentSourcePublishesNothing ==
  /\ [](~ValidSource(originalImage) =>
          /\ originalImage = NoImage
          /\ ~processedImage.present
          /\ ~isProcessing
          /\ timers = {}
          /\ microtasks = << >>)
  /\ [][\A e \in ImageElements :
          (AbsentOrInvalid(e) /\ setupCanvas(e)) =>
             /\ originalImage' = NoImage
             /\ ~processedImage'.present
             /\ ~isProcessing'
             /\ timers' = {}
             /\ invoked' = invoked]_vars

\* the source was removed while the timer of the latest change was armed
C2_Witness ==
  /\ lastOp = "setupCanvas"
  /\ ~ValidSource(originalImage)
  /\ nextTimerId > 1
  /\ (nextTimerId - 1) \in superseded
  /\ (nextTimerId - 1) \notin invoked
  /\ timers = {}

\* C3: after resetFilters the filter set is the neutral set: the six
\* filters, each 0, and nothing else.
C3_ResetYieldsNeutral ==
  lastOp = "resetFilters" => internalFilters.entries = defaultFilters

\* a reset of the non-neutral filter set whose render is still shown
C3_Witness ==
  /\ lastOp = "resetFilters"
  /\ internalFilters.ref = 3
  /\ processedImage.present
  /\ processedImage.filters = 2
  /\ processedImage.stages # << >>
  /\ internalFilters.entries = defaultFilters

\* C4: updateFilter(name, v) called when the filter already holds the same
\* coerced value returns the same object: the reference does not change and
\* no timer is armed (for every v, NaN included).
C4_RepeatedUpdateKeepsReference ==
  [][\A n \in UpdateNames, v \in RawValues :
       (/\ updateFilter(n, v)
        /\ HasOwnProperty(internalFilters.entries, n)
        /\ SameValue(Get(internalFilters.entries, n), Number(v)))
       => (internalFilters' = internalFilters /\ timers' = timers)]_vars

\* C5: updateFilter with a name that is none of the six filters is
\* rejected: the keys stay the six defined ones and the reference and the
\* timers stay as they are.
C5_UnknownNameRejected ==
  [][\A n \in UpdateNames \ KnownNames, v \in RawValues :
       updateFilter(n, v) =>
         /\ Keys(internalFilters'.entries) = FilterNames
         /\ internalFilters' = internalFilters
         /\ timers' = timers]_vars

\* C6: in every reachable state the filter set has the six filter keys, and
\* the value of each is of type number; so has every snapshot held by a
\* timer or a queued render.
C6_SixNumericKeys ==
  \A f \in {internalFilters} \cup { t.filters : t \in timers }
           \cup { microtasks[i].filters : i \in 1..Len(microtasks) } :
    /\ \A name \in KnownNames :
         /\ HasOwnProperty(f.entries, name)
         /\ TypeOf(Get(f.entries, name)) = "number"
    /\ \A i \in 1..Len(f.entries) : TypeOf(f.entries[i].val) = "number"

\* a string that is no number was stored as NaN, and a string that is one
\* as that number
C6_Witness ==
  /\ IsNaN(Get(internalFilters.entries, "brightness"))
  /\ Get(internalFilters.entries, "backgroundBlur") = Fin(200)

\* C7: an updateFilter or resetFilters that leaves every field value as it
\* was keeps the identity of the filter object, and so arms no timer.
C7_IdentityStableWithoutChange ==
  [][((\/ resetFilters
       \/ \E n \in UpdateNames, v \in RawValues : updateFilter(n, v))
      /\ internalFilters'.entries = internalFilters.entries)
     => (internalFilters'.ref = internalFilters.ref /\ timers' = timers)]_vars

\* C8: resetFilters is one state change: with a valid source it cancels the
\* armed timer and arms exactly one, whose job holds the neutral set, and
\* the render that the timer starts is that job.
C8_ResetIsOneChange ==
  /\ [][(resetFilters /\ ValidSource(originalImage)) =>
          /\ internalFilters'.entries = defaultFilters
          /\ nextTimerId' = nextTimerId + 1
          /\ timers' = { [id |-> nextTimerId, img |-> originalImage,
                          filters |-> internalFilters'] }]_vars
  /\ [][\A t \in timers : processImage(t) =>
          /\ timers' = {}
          /\ microtasks' = << [img |-> t.img, filters |-> t.filters] >>
          /\ t.filters = internalFilters]_vars
  /\ [](processedImage.present /\ processedImage.filters = internalFilters.ref
          /\ internalFilters.entries = defaultFilters
        => processedImage.stages = << >>)

\* a reset with a valid source cancelled the armed timer and armed one for
\* the neutral set, while the render of a non-neutral set is shown
C8_Witness ==
  /\ lastOp = "resetFilters"
  /\ ValidSource(originalImage)
  /\ timers = { CurrentJob(debounceTimerId) }
  /\ (debounceTimerId - 1) \in superseded
  /\ internalFilters.entries = defaultFilters
  /\ processedImage.present
  /\ processedImage.stages # << >>

\* C9: updateFilter(name, v) of a defined filter stores Number(v) as it is,
\* out of the filter's domain or not, and a render of that filter object
\* applies the stage with the parameter computed from the stored value.
C9_StoresNumberUnclamped ==
  /\ [][\A n \in UpdateNames \cap KnownNames, v \in RawValues :
          updateFilter(n, v) => Get(internalFilters'.entries, n) = Number(v)]_vars
  /\ [](processedImage.present /\ processedImage.filters = internalFilters.ref =>
          \A i \in 1..Len(processedImage.stages) :
            processedImage.stages[i].arg =
              StageArg(processedImage.stages[i].type,
                       Get(internalFilters.entries, processedImage.stages[i].type)))

\* brightness 1.5, outside [-0.5, 0.5], was stored and rendered with gain 2.5
C9_Witness ==
  /\ Get(internalFilters.entries, "brightness") = Fin(1500)
  /\ processedImage.present
  /\ processedImage.filters = internalFilters.ref
  /\ \E i \in 1..Len(processedImage.stages) :
       processedImage.stages[i] = Stage("brightness", Fin(2500), "full")

\* C10: the six filters enumerate in the order of defaultFilters in every
\* filter object (the current one and the ones held by timers and queued
\* renders), whatever updates and resets came before, and the stages of a
\* published render are in that order.
C10_StageOrderFixed ==
  /\ \A f \in {internalFilters} \cup { t.filters : t \in timers }
             \cup { microtasks[i].filters : i \in 1..Len(microtasks) } :
       KnownKeys(f.entries) = FilterNames
  /\ processedImage.present =>
       \A i, j \in 1..Len(processedImage.stages) :
         i < j => Pos(processedImage.stages[i].type) < Pos(processedImage.stages[j].type)

\* brightness and backgroundBlur were updated, in either order, and both
\* stages were rendered
C10_Witness ==
  /\ processedImage.present
  /\ Len(processedImage.stages) = 2
  /\ processedImage.stages[1].type = "brightness"
  /\ processedImage.stages[2].type = "backgroundBlur"
  /\ processedImage.filters = internalFilters.ref

\* the stages of a filter type among stages
StagesOf(stages, type) == SelectSeq(stages, LAMBDA st : st.type = type)

Magnitudes == { "smoothing", "blur", "backgroundBlur" }

\* C11: in a render that gets its surfaces, brightness, contrast and
\* saturation leave the canvas as it is when the value is exactly 0 and
\* apply their stage for every other value, however small; smoothing, blur
\* and backgroundBlur leave it as it is whenever abs(value) < 0.01.
C11_SkipRules ==
  [][\A scratchFail \in 0..4 :
       processImageThen(TRUE, scratchFail, FALSE) =>
         \A i \in 1..Len(internalFilters.entries) :
           LET k == internalFilters.entries[i].key
               v == internalFilters.entries[i].val
               applied == StagesOf(processedImage'.stages, k)
           IN /\ (k \in CssAdjustments /\ v = Fin(0)) => applied = << >>
              /\ (k \in CssAdjustments /\ v # Fin(0) /\ scratchFail = 0) => Len(applied) = 1
              /\ (k \in Magnitudes /\ ~IsNaN(v) /\ v.v > -10 /\ v.v < 10) => applied = << >>]_vars

\* brightness 0.005 was applied and backgroundBlur 0.005 was not
C11_Witness ==
  /\ lastOp = "render"
  /\ Get(internalFilters.entries, "brightness") = Fin(5)
  /\ Get(internalFilters.entries, "backgroundBlur") = Fin(5)
  /\ processedImage.present
  /\ processedImage.stages = << Stage("brightness", Fin(1005), "full") >>

\* C12: a render of the neutral filter set applies no stage: the canvas
\* that is encoded holds the source as drawn, for every valid source and
\* whatever scratch surface would have been missing.
C12_NeutralRenderIsSource ==
  (/\ lastOp = "render"
   /\ processedImage.present
   /\ internalFilters.entries = defaultFilters)
  => (/\ processedImage.stages = << >>
      /\ processedImage.img = originalImage.id
      /\ ValidSource(originalImage))

\* a render of the neutral set, set anew after two changes, is published
C12_Witness ==
  /\ lastOp = "render"
  /\ processedImage.present
  /\ internalFilters.entries = defaultFilters
  /\ internalFilters.ref = 3
  /\ processedImage.filters = 3
  /\ processedImage.stages = << >>

\* C13: an applied stage has the parameter 1 + value for brightness,
\* contrast and saturation, 8 * value for blur and 10 * value for
\* backgroundBlur; and when all filters but one are neutral, only stages of
\* that one are applied, exactly one if it is not skipped and the surfaces
\* are there.
C13_StageParameters ==
  /\ [](processedImage.present =>
          \A i \in 1..Len(processedImage.stages) :
            LET st == processedImage.stages[i]
                v == Get(internalFilters.entries, st.type)
            IN /\ IsNaN(v) => IsNaN(st.arg)
               /\ ~IsNaN(v) =>
                    st.arg = Fin(CASE st.type \in CssAdjustments -> 1000 + v.v
                                   [] st.type = "blur" -> 8 * v.v
                                   [] st.type = "backgroundBlur" -> 10 * v.v
                                   [] OTHER -> v.v))
  /\ [](processedImage.present =>
          \A k \in KnownNames :
            (\A n \in KnownNames \ {k} : Get(internalFilters.entries, n) = Fin(0))
            => \A i \in 1..Len(processedImage.stages) : processedImage.stages[i].type = k)
  /\ [][processImageThen(TRUE, 0, FALSE) =>
          \A k \in KnownNames :
            LET v == Get(internalFilters.entries, k)
            IN (/\ \A n \in KnownNames \ {k} : Get(internalFilters.entries, n) = Fin(0)
                /\ ~IsNaN(v)
                /\ (k \in CssAdjustments => v.v # 0)
                /\ (k \in Magnitudes => v.v >= 10))
               => (/\ Len(processedImage'.stages) = 1
                   /\ processedImage'.stages[1].type = k)]_vars

\* saturation -1 alone was rendered with gain 0
C13_Witness ==
  /\ lastOp = "render"
  /\ Get(internalFilters.entries, "saturation") = Fin(-1000)
  /\ processedImage.present
  /\ processedImage.stages = << Stage("saturation", Fin(0), "full") >>

\* a getContext("2d") call of the render returns null: the one of the
\* working canvas, or the scratchFail-th one of a stage that asks for it
SurfaceFailed(entries, ctx, scratchFail) ==
  \/ ~ctx
  \/ \E i \in 1..Len(entries) :
       LET k == entries[i].key
           v == entries[i].val
       IN /\ ~Skipped(k, v)
          /\ \/ k \in CssAdjustments /\ scratchFail = 1
             \/ k = "blur" /\ Positive(v) /\ scratchFail = 1
             \/ k = "backgroundBlur" /\ Positive(v) /\ scratchFail \in 1..4

\* C14: a render in which a getContext call returns null (working canvas
\* or a scratch canvas of a stage) publishes null, never an image.
C14_SurfaceFailureAbortsRender ==
  [][\A ctx \in BOOLEAN, scratchFail \in 0..4 :
       (/\ processImageThen(ctx, scratchFail, FALSE)
        /\ SurfaceFailed(Head(microtasks).filters.entries, ctx, scratchFail))
       => ~processedImage'.present]_vars

\* C15: a render that throws sets processedImage to null and isProcessing
\* to false and leaves the microtask queue empty; and after a throw a timer
\* that fires starts its render as usual.
C15_ThrowClearsAndRecovers ==
  /\ [][\A ctx \in BOOLEAN, scratchFail \in 0..4 :
          processImageThen(ctx, scratchFail, TRUE) =>
            /\ ~processedImage'.present
            /\ ~isProcessing'
            /\ microtasks' = << >>]_vars
  /\ [][\A t \in timers :
          (threw /\ processImage(t)) =>
            /\ isProcessing'
            /\ microtasks' = << [img |-> t.img, filters |-> t.filters] >>]_vars
  /\ [](threw /\ mounted /\ microtasks = << >> => ~isProcessing)

\* after a render that threw, the render of a later change is published
C15_Witness ==
  /\ threw
  /\ lastOp = "render"
  /\ processedImage.present
  /\ processedImage.filters = internalFilters.ref
  /\ Cardinality(invoked) >= 2

\* C16: a render that meets a property that is no filter warns about it,
\* whatever its value, and publishes the image with the known stages.
C16_UnknownStageWarns ==
  (lastOp = "render" /\ processedImage.present) =>
    \A i \in 1..Len(internalFilters.entries) :
      internalFilters.entries[i].key \notin KnownNames
        => internalFilters.entries[i].key \in console

\* C17: isProcessing is true as long as a render is queued, and it goes
\* from true to false only in the step that ends the render.
C17_BusyWhileRendering ==
  /\ [](microtasks # << >> => isProcessing)
  /\ [][\A t \in timers : (processImage(t) /\ ValidSource(t.img)) => isProcessing']_vars
  /\ [][(isProcessing /\ ~isProcessing') => (microtasks # << >> /\ microtasks' = << >>)]_vars

\* a render is queued while the image of an earlier render is shown
C17_Witness ==
  /\ microtasks # << >>
  /\ isProcessing
  /\ processedImage.present
  /\ lastOp = "processImage"

\* C18: when the pixel work of a render starts, the page has been painted
\* with isProcessing = true since processImage set it.
C18_BusyPaintedBeforePixelWork ==
  [][\A ctx \in BOOLEAN, scratchFail \in 0..4, throws \in BOOLEAN :
       processImageThen(ctx, scratchFail, throws) => uiBusy]_vars

C20_UnmountCancelsTimer ==
  /\ [](~mounted => timers = {})
  /\ [][unmount => (timers' = {} /\ invoked' = invoked)]_vars
  /\ [][~mounted => invoked' = invoked]_vars

\* the component was unmounted while the timer of the latest change was armed
C20_Witness ==
  /\ ~mounted
  /\ lastOp = "unmount"
  /\ debounceTimerId # 0
  /\ debounceTimerId \notin invoked
  /\ debounceTimerId \notin superseded

\* C21: a new source image (an upload through handleImageUpload, or an
\* applied crop through handleImageCropped) resets the filter set: the step
\* that changes imageForFiltering leaves the neutral set in the hook.
C21_NewSourceResetsFilters ==
  [][\A u \in UploadUrls \cup CropUrls :
       (((\E n \in FileNames : handleImageUpload(u, n)) \/ handleImageCropped(u))
        /\ imageForFiltering' # imageForFiltering)
       => internalFilters'.entries = defaultFilters]_vars

\* an image element of width 0 or height 0
ZeroDimension(e) == e.naturalWidth = 0 \/ e.naturalHeight = 0

\* C22: a source of width 0 or height 0 is treated as absent by setupCanvas,
\* the debounce effect and processImage: it never becomes originalImage, no
\* timer is armed and no render is queued for it, and no image of it is
\* published.
C22_ZeroDimensionIsAbsent ==
  /\ originalImage # NoImage => ~ZeroDimension(originalImage)
  /\ \A t \in timers : ~ZeroDimension(t.img)
  /\ \A i \in 1..Len(microtasks) : ~ZeroDimension(microtasks[i].img)
  /\ processedImage.present =>
       \A e \in ImageElements \cup DebounceElements :
         e.id = processedImage.img => ~ZeroDimension(e)

\* the render that ended applied backgroundBlur with its mask
MaskApplied ==
  /\ lastOp = "render"
  /\ processedImage.present
  /\ \E i \in 1..Len(processedImage.stages) :
       processedImage.stages[i].type = "backgroundBlur" /\ processedImage.stages[i].part = "full"

\* the image centre is in the opaque part of the mask, and the four corners
\* of the image are at or beyond its outer circle
CentreOpaqueCornersTransparent ==
  LET width == originalImage.naturalWidth
      height == originalImage.naturalHeight
  IN /\ maskAlpha(0, 0, width, height) = "opaque"
     /\ \A sx, sy \in {-1, 1} : maskAlpha(sx * width, sy * height, width, height) = "transparent"

\* C23 as stated: for backgroundBlur > 0 on an image of any width and
\* height >= 1 the centre is in the opaque part of the mask and the corners
\* beyond its outer circle, and so the output at the centre is the pre-blur
\* content and the output at the corners the blurred content.
C23_CentreSharpCornersBlurred ==
  MaskApplied =>
    /\ CentreOpaqueCornersTransparent
    /\ processedImage.focus.centre = "sharp"
    /\ processedImage.focus.corner = "blurred"

\* C23, amended: the centre point and the corner points are placed so for
\* every size; the pixel at the centre holds the pre-blur content and the
\* pixel in the corner the blurred content when min(width, height) >= 4
\* (on smaller images a pixel's centre is up to 0.71 pixel from the point).
C23_FocusOnImagesOfFourPixels ==
  MaskApplied =>
    /\ CentreOpaqueCornersTransparent
    /\ Min(originalImage.naturalWidth, originalImage.naturalHeight) >= 4 =>
         /\ processedImage.focus.centre = "sharp"
         /\ processedImage.focus.corner = "blurred"

\* backgroundBlur 0.2 on an image of 4 x 5 pixels: centre sharp, corner blurred
C23_Witness ==
  /\ MaskApplied
  /\ originalImage.naturalWidth = 4
  /\ originalImage.naturalHeight = 5
  /\ Get(internalFilters.entries, "backgroundBlur") = Fin(200)
  /\ processedImage.focus = [centre |-> "sharp", corner |-> "blurred"]

\* the filter objects the hook and its pending jobs hold
Snapshots ==
  {internalFilters} \cup { t.filters : t \in timers }
    \cup { microtasks[i].filters : i \in 1..Len(microtasks) }

\* C24: a filter object handed to a render job is never changed: objects of
\* one identity hold the same values wherever they are held, updateFilter
\* and resetFilters return the object they got or one of a new identity,
\* and a published image of the current object shows the stages of its values.
C24_SnapshotsNeverMutated ==
  /\ [](\A f, g \in Snapshots : f.ref = g.ref => f.entries = g.entries)
  /\ [](\A f \in Snapshots : f.ref < nextRef)
  /\ [][internalFilters' # internalFilters =>
          (internalFilters'.ref = nextRef /\ nextRef' = nextRef + 1)]_vars
  /\ [][\A t \in timers : t \in timers' => t.filters \in { u.filters : u \in timers }]_vars
  /\ [](processedImage.present /\ processedImage.filters = internalFilters.ref =>
          \E scratchFail \in 0..4 :
            processedImage.stages = ApplyAll(internalFilters.entries, scratchFail))

\* the image of the object of brightness 0.2 is shown, and a later update
\* made a new object whose timer is armed
C24_Witness ==
  /\ lastOp = "updateFilter"
  /\ processedImage.present
  /\ processedImage.filters = 2
  /\ processedImage.stages = << Stage("brightness", Fin(1200), "full") >>
  /\ internalFilters.ref = 3
  /\ \E t \in timers : t.filters = internalFilters

\* C25: at most one render is in flight: never more than one render is
\* queued, and a timer callback starts one only when none is queued.
C25_OneRenderInFlight ==
  /\ [](Len(microtasks) <= 1)
  /\ [][\A t \in timers : processImage(t) => microtasks = << >>]_vars
  /\ [][microtasks' # << >> => (microtasks = << >> /\ isProcessing')]_vars

\* a second render is queued after the first one ended
C25_Witness ==
  /\ Len(microtasks) = 1
  /\ Cardinality(invoked) = 2
  /\ processedImage.present
  /\ processedImage.filters # microtasks[1].filters.ref
  /\ lastOp = "processImage"

\* C26: the download cannot start while the base image element is loading
\* or filters are being processed, or when there is no processed image.
C26_NoDownloadWhileLoading ==
  [][handleDownload =>
       (~isBaseImageElementLoading /\ ~isProcessing /\ processedImage.present)]_vars

\* C27: while isEditingAreaLoading is true a slider change and a click on
\* Reset All leave the filter set, the timers and the queue as they are.
C27_ControlsForwardNothingWhileLoading ==
  [][(/\ isEditingAreaLoading
      /\ \/ handleResetFiltersClick
         \/ \E n \in SliderNames, v \in SliderValues : handleSliderChange(n, v))
     => (/\ internalFilters' = internalFilters
         /\ timers' = timers
         /\ microtasks' = microtasks)]_vars

\* a slider was moved while the image of a crop was loading and a filter
\* was active: the filter set is still the one that was rendered
C27_Witness ==
  /\ lastOp = "handleSliderChange"
  /\ isBaseImageElementLoading
  /\ imageForFiltering = 2
  /\ hasActiveFilters
  /\ processedImage.present
  /\ processedImage.filters = internalFilters.ref

\* C28: at most one debounce timer is armed; a step that changes the source
\* or the filter object cancels the armed timer before it arms the new one;
\* and the callback that runs is the one of the latest timer, never one
\* that was cancelled.
C28_OneTimerArmed ==
  /\ [](Cardinality(timers) <= 1)
  /\ [][(originalImage' # originalImage \/ internalFilters'.ref # internalFilters.ref) =>
          /\ timers \cap timers' = {}
          /\ \A t \in timers' : t.id = nextTimerId /\ t.id = debounceTimerId']_vars
  /\ [][\A t \in timers : processImage(t) =>
          (t.id = debounceTimerId /\ t.id \notin superseded)]_vars
  /\ [][\A t \in timers : t \notin timers' => t.id \in invoked' \cup superseded' \/ ~mounted']_vars

\* the source was replaced while the timer of the first one was armed: that
\* timer is gone, never ran, and the timer of the new source is armed
C28_Witness ==
  /\ lastOp = "setupCanvas"
  /\ ValidSource(originalImage)
  /\ debounceTimerId = 2
  /\ timers = { CurrentJob(2) }
  /\ 1 \in superseded
  /\ 1 \notin invoked

\* the render of timer id has ended and its result is what is published
Published(id) ==
  /\ id \in invoked
  /\ debounceTimerId = id
  /\ microtasks = << >>
  /\ ~isProcessing
  /\ processedImage.present =>
       (processedImage.filters = internalFilters.ref /\ processedImage.img = originalImage.id)

C30_SmoothingKernel ==
  LET value == Get(internalFilters.entries, "smoothing")
      kernel == processedImage.kernel
  IN (/\ lastOp = "render"
      /\ processedImage.present
      /\ value.v >= 10
      /\ value.v <= 1000)
     => /\ processedImage.stages = << Stage("smoothing", value, "full") >>
        /\ kernel.strength \in 1..6
        /\ value.v < 200 => kernel.strength = 1
        /\ value.v = 1000 => kernel.strength = 6
        /\ kernel.originalWeight \in 0..10000
        /\ kernel.smoothWeight \in 0..10000
        /\ kernel.originalWeight + kernel.smoothWeight = 10000
        /\ \A u \in SmoothingValues :
             (u.v >= 10 /\ u.v <= value.v) => originalWeight(u) >= kernel.originalWeight

\* smoothing 1 was rendered with radius 6 and weights 0.1 and 0.9
C30_Witness ==
  /\ lastOp = "render"
  /\ processedImage.present
  /\ Get(internalFilters.entries, "smoothing") = Fin(1000)
  /\ processedImage.kernel = [strength |-> 6, originalWeight |-> 1000, smoothWeight |-> 9000]

\* the width, height and kernel radius of the smoothing stage that ran
StageWidth == originalImage.naturalWidth
StageHeight == originalImage.naturalHeight
StageValue == Get(internalFilters.entries, "smoothing")
PixelCount == Len(drawn) \div 4

\* the pixels of the image (numbered in raster order from 0) whose column
\* and row are within s of those of pixel p
Near(p, s) ==
  { q \in 0..(PixelCount - 1) :
      /\ Abs((q % StageWidth) - (p % StageWidth)) <= s
      /\ Abs((q \div StageWidth) - (p \div StageWidth)) <= s }

\* C31: the window average of a pixel uses exactly the neighbours whose
\* coordinates lie in the image (no wraparound to another row, no padding),
\* and its divisor is the number of those in-bounds samples.
C31_WindowInBounds ==
  drawn # << >> =>
    \A p \in 0..(PixelCount - 1) :
      /\ window[p + 1].samples =
           { << q % StageWidth, q \div StageWidth >> : q \in Near(p, strength(StageValue)) }
      /\ window[p + 1].count = Cardinality(Near(p, strength(StageValue)))
      /\ window[p + 1].count >= 1
      /\ \A sample \in window[p + 1].samples :
           sample[1] \in 0..(StageWidth - 1) /\ sample[2] \in 0..(StageHeight - 1)

\* an image of 3 by 2 pixels smoothed with radius 1: the corner averages 4
\* samples and the middle of the top row 6
C31_Witness ==
  /\ drawn # << >>
  /\ StageWidth = 3 /\ StageHeight = 2
  /\ strength(StageValue) = 1
  /\ window[1].count = 4
  /\ window[2].count = 6
  /\ window[4].samples = { << 0, 0 >>, << 1, 0 >>, << 0, 1 >>, << 1, 1 >> }

\* C32: the smoothing stage leaves the alpha channel of every pixel as it
\* was, for every smoothing value and image size.
C32_AlphaUnchanged ==
  drawn # << >> =>
    /\ Len(data) = Len(drawn)
    /\ \A p \in 0..(PixelCount - 1) : data[4 * p + 4] = drawn[4 * p + 4]

\* red, green or blue changed in an image with opaque and half-transparent pixels
C32_Witness ==
  /\ drawn # << >>
  /\ \E p \in 0..(PixelCount - 1) : drawn[4 * p + 4] = 128
  /\ \E p \in 0..(PixelCount - 1) : drawn[4 * p + 4] = 255
  /\ \E p \in 0..(PixelCount - 1) : data[4 * p + 1] # drawn[4 * p + 1]
  /\ \E p \in 0..(PixelCount - 1) : data[4 * p + 2] # drawn[4 * p + 2]

\* the sum of channel j of buffer d over the pixels of S
RECURSIVE Total(_, _, _)
Total(d, S, j) ==
  IF S = {} THEN 0
  ELSE LET q == CHOOSE q \in S : TRUE
       IN d[4 * q + j + 1] + Total(d, S \ {q}, j)

\* the buffer pixel p reads: the results of the pixels before it in
\* raster order, the input of the stage from p on
SeenBy(p) == [ k \in 1..Len(drawn) |-> IF (k - 1) \div 4 < p THEN data[k] ELSE drawn[k] ]

\* a box average of the unmodified input of the stage
BoxOfCopy(p, j) ==
  Blend(drawn[4 * p + j + 1],
        Total(drawn, Near(p, strength(StageValue)), j),
        Cardinality(Near(p, strength(StageValue))), StageValue)

\* C33: the stage works in place in raster order: the result of a pixel is
\* the blend of its input value with the average of a window that holds the
\* results of the pixels visited before it and the input values of the
\* others.
C33_InPlaceRasterOrder ==
  drawn # << >> =>
    \A p \in 0..(PixelCount - 1) : \A j \in 0..2 :
      data[4 * p + j + 1] =
        Blend(drawn[4 * p + j + 1],
              Total(SeenBy(p), Near(p, strength(StageValue)), j),
              Cardinality(Near(p, strength(StageValue))), StageValue)

\* a result that differs from the box average of an unmodified copy
C33_Witness ==
  /\ drawn # << >>
  /\ \E p \in 1..(PixelCount - 1) : data[4 * p + 1] # BoxOfCopy(p, 0)
  /\ data[1] = BoxOfCopy(0, 0)

\* C34: when no debounce timer is armed and no render is in flight,
\* processedImage is null or the output of a render of the current source
\* with the current filter object; a result of an older source or filter
\* object is visible only while a timer is armed or a render is in flight.
C34_QuiescentResultIsCurrent ==
  (mounted /\ timers = {} /\ microtasks = << >>) =>
    \/ ~processedImage.present
    \/ /\ ValidSource(originalImage)
       /\ processedImage.img = originalImage.id
       /\ processedImage.filters = internalFilters.ref
       /\ processedImage.stages \in
            { ApplyAll(internalFilters.entries, scratchFail) : scratchFail \in 0..4 }

\* a stale result is on display while the timer of a later change is armed,
\* and the result of the latest change is on display once it has fired
C34_Witness ==
  /\ mounted /\ timers = {} /\ microtasks = << >>
  /\ processedImage.present
  /\ processedImage.filters = internalFilters.ref
  /\ internalFilters.ref > 2
  /\ Cardinality(invoked) >= 2
  /\ superseded # {}

\* C35: the load of an image that imageForFiltering has moved on from never
\* calls setupCanvas and never clears isBaseImageElementLoading; an image
\* that reaches the hook is the one of the current imageForFiltering, in
\* whatever order the loads end.
C35_OnlyLatestLoadReachesHook ==
  /\ [][\A u \in detached : detached' = detached \ {u} =>
          /\ originalImage' = originalImage
          /\ processedImage' = processedImage
          /\ timers' = timers
          /\ isBaseImageElementLoading' = isBaseImageElementLoading]_vars
  /\ [][(originalImage' # originalImage /\ originalImage' # NoImage) =>
          (originalImage' = Loaded(imageForFiltering) /\ imageForFiltering # 0)]_vars
  /\ [][(isBaseImageElementLoading /\ ~isBaseImageElementLoading') =>
          (imgSrc = imageForFiltering /\ detached' = detached)]_vars

\* the load of the upload ended after the load of the crop: the hook holds
\* the crop
C35_Witness ==
  /\ lastOp = "detachedLoadEnds"
  /\ imageForFiltering = applyCrop(sourceImage)
  /\ originalImage = Loaded(imageForFiltering)
  /\ ~isBaseImageElementLoading
  /\ detached = {}

\* C36: applying a crop changes imageForFiltering only: sourceImage (the
\* src of the Cropper), originalFileName and the filter set stay, so a later
\* crop is again a crop of the upload and the filters in force are applied
\* to the cropped image.
C36_CropChangesOnlyFilteredImage ==
  /\ [][lastOp' = "handleImageCropped" =>
          /\ sourceImage' = sourceImage
          /\ originalFileName' = originalFileName
          /\ internalFilters' = internalFilters
          /\ imageForFiltering' = applyCrop(sourceImage)]_vars
  /\ [][sourceImage # 0 => sourceImage' = sourceImage]_vars
  /\ [](processedImage.present /\ timers = {} /\ microtasks = << >> =>
          processedImage.stages \in
            { ApplyAll(internalFilters.entries, scratchFail) : scratchFail \in 0..4 })

\* the render of the crop with a filter set that was changed before the crop
C36_Witness ==
  /\ imageForFiltering = applyCrop(sourceImage)
  /\ processedImage.present
  /\ processedImage.img = imageForFiltering
  /\ processedImage.stages # << >>
  /\ internalFilters.entries # defaultFilters
  /\ originalFileName = "me.png"

\* the events of the page ImageUploader handles
UploaderEvents == { "handleDrop", "handleFileInput", "handleClick" }

\* C37: while isLoading is true a drop, a change of the file input and a
\* click start no read and change nothing, so at most one file is being
\* read; onImageUpload is called at most once per accepted file, by the
\* timeout of 300 ms that the end of its read arms.
C37_OneReadOneUpload ==
  /\ [](Cardinality(reads) + Cardinality(uploadTimers) <= 1)
  /\ [](reads # {} \/ uploadTimers # {} => isLoading)
  /\ [][(isLoading /\ lastOp' \in UploaderEvents) =>
          /\ reads' = reads
          /\ nextFile' = nextFile
          /\ isLoading'
          /\ error' = error
          /\ uploadTimers' = uploadTimers
          /\ uploaded' = uploaded
          /\ (lastOp' = "handleClick" => dialog' = dialog)]_vars
  /\ [](\A i, j \in 1..Len(uploaded) : uploaded[i] = uploaded[j] => i = j)
  /\ [](\A i \in 1..Len(uploaded) : [file |-> uploaded[i], how |-> "load"] \in ended)
  /\ [][\A t \in uploadTimers' \ uploadTimers :
          t.delay = 300 /\ t.id \in reads /\ lastOp' = "reader.onload"]_vars
  /\ [][uploaded' # uploaded =>
          \E t \in uploadTimers : t.delay = 300 /\ uploaded' = Append(uploaded, t.id)]_vars

\* a valid file was dropped while the timeout of the file before it was
\* armed, and was ignored
C37_Witness ==
  /\ lastOp = "handleDrop"
  /\ validateFile(lastFile) = ""
  /\ isLoading
  /\ uploadTimers # {}
  /\ reads = {}
  /\ Len(uploaded) = 1
  /\ nextFile = 3

\* a type outside of the three accepted ones, or a size above 10 MB
FailsValidation(file) ==
  \/ file.type \notin { "image/jpeg", "image/png", "image/jpg" }
  \/ file.size > 10485760

\* C38: a file that fails validation (missing, a type other than
\* image/jpeg, image/png and image/jpg, a size above 10 MB) gets an error
\* message, is not read, does not set isLoading and leads to no call of
\* onImageUpload.
C38_InvalidFileRejected ==
  /\ [](validateFile(NoFile) # "")
  /\ [](\A f \in Files : FailsValidation(f) <=> validateFile(f) # "")
  /\ [][(~isLoading /\ lastOp' \in { "handleDrop", "handleFileInput" }
         /\ lastFile' # NoFile /\ FailsValidation(lastFile')) =>
          /\ error' # ""
          /\ ~isLoading'
          /\ reads' = reads
          /\ nextFile' = nextFile
          /\ ended' = ended
          /\ uploadTimers' = uploadTimers
          /\ uploaded' = uploaded]_vars

\* a PNG of one byte above the limit was chosen in the dialog after an upload
C38_Witness ==
  /\ lastOp = "handleFileInput"
  /\ lastFile.type = "image/png"
  /\ lastFile.size = MaxFileSize + 1
  /\ error = "Image size is too large. Please upload an image smaller than 10MB."
  /\ ~isLoading
  /\ reads = {}
  /\ Len(uploaded) = 1

\* C39: once a file is accepted and isLoading is true, isLoading returns to
\* false whatever the outcome of the read (load, error, abort, an exception
\* of readAsDataURL), and after an error, an abort or an exception
\* onImageUpload is not called for the file.
C39_LoadingAlwaysEnds ==
  /\ isLoading ~> ~isLoading
  /\ [](\A e \in ended : e.how # "load" => \A i \in 1..Len(uploaded) : uploaded[i] # e.file)
  /\ [][(\E e \in ended' \ ended : e.how # "load") =>
          (~isLoading' /\ uploadTimers' = {} /\ uploaded' = uploaded)]_vars
  /\ [][(isLoading /\ ~isLoading') =>
          \/ \E e \in ended' \ ended : e.how \in { "error", "abort" }
          \/ uploaded' # uploaded]_vars

\* four files were accepted and their reads ended in the four ways
C39_Witness ==
  /\ { e.how : e \in ended } = { "load", "error", "abort", "exception" }
  /\ Len(uploaded) = 1
  /\ ~isLoading
  /\ uploadTimers = {}

\* C40: handleDownload starts nothing without a processedImage; otherwise
\* isCompressing is true for the whole download and returns to false, with
\* the progress back at 0, whether the compression succeeds or fails; when
\* it fails the link is the uncompressed processedImage; and no second
\* download starts while isCompressing is true.
C40_DownloadRunsOnceAndEnds ==
  /\ [](\A d \in downloads : d.present)
  /\ [](isCompressing <=> downloads # {})
  /\ [](Cardinality(downloads) <= 1)
  /\ [](~isCompressing => downloadProgress = 0)
  /\ [][lastOp' = "handleDownload" =>
          /\ processedImage.present /\ ~isCompressing
          /\ isCompressing' /\ downloadProgress' = 0
          /\ downloads' = {processedImage}
          /\ link' = link]_vars
  /\ [][(isCompressing /\ isCompressing') => (downloads' = downloads /\ link' = link)]_vars
  /\ [][lastOp' = "downloaded" =>
          /\ isCompressing /\ ~isCompressing' /\ downloadProgress' = 0
          /\ link'.of \in downloads
          /\ link'.href \in { "blob", "data" }]_vars
  /\ [][link' # link => lastOp' = "downloaded"]_vars
  /\ isCompressing ~> (~isCompressing /\ downloadProgress = 0)

\* the compression failed after it reported progress, and the link was the
\* processedImage of the click, which a render has replaced since
C40_Witness ==
  /\ lastOp = "downloaded"
  /\ link.href = "data"
  /\ link.of.present
  /\ processedImage.present
  /\ link.of # processedImage
  /\ ~isCompressing
  /\ downloadProgress = 0

====
